---- MODULE Spec2Model ----
(***************************************************************************)
(* A model of src/renderer/mod.rs: the stereoscopic Renderer.              *)
(*                                                                         *)
(*   Spec      Renderer::render, one action per statement of the function, *)
(*             together with the GPU that executes submitted command       *)
(*             buffers and the asset loader that owns the readiness flags. *)
(*   SpecNew   Renderer::new, one action per fallible statement.           *)
(*   SpecClip  the constant CLIP applied to a point.                       *)
(*                                                                         *)
(* Values of the graphics library (futures, command buffers, queues) are   *)
(* symbolic records; matrices are symbolic products, except CLIP.          *)
(***************************************************************************)
EXTENDS Integers, Sequences, FiniteSets, TLC

\* ------------------------------------------------------------------ bounds
\* Number of render calls made on one Renderer.
MaxFrames == 3
\* Longest scene slice handed to one render call.
MaxScene == 2
\* Most physical devices the instance enumerates.
MaxDevices == 2
\* Most queue families a physical device has.
MaxFamilies == 2
\* Largest coordinate of a point CLIP is applied to, in halves.
MaxCoord == 2

\* ------------------------------------------------------------------ values
\* Option<Box<dyn GpuFuture>>: None, Some(sync::now(device)) or
\* Some(fence-signal future of the frame that was flushed).
None == [kind |-> "none", frame |-> 0]
NowFuture == [kind |-> "now", frame |-> 0]
FenceSignalFuture(k) == [kind |-> "fence", frame |-> k]

\* The head poses a caller may pass; "singular" has no inverse transform.
Poses == {"pose_a", "pose_b", "singular"}
\* The (left, right) eye rotations a caller may pass.
EyeRotations == {<<"rot_l", "rot_r">>}
\* The world transform of the n-th entry of a scene: distinct per entry.
WorldMatrix(n) == <<"world", n>>
\* A scene entry is a (Model, Matrix4); loaded is what Model::loaded()
\* returns. The scenes a caller may pass: any length up to MaxScene, any
\* readiness of each model.
Scenes ==
    UNION {{[n \in 1..len |-> [loaded |-> ready[n], matrix |-> WorldMatrix(n)]] :
                ready \in [1..len -> BOOLEAN]} : len \in 0..MaxScene}

NoResult == [kind |-> "none", variant |-> "none"]
OkResult == [kind |-> "Ok", variant |-> "none"]
Panic(why) == [kind |-> "panic", variant |-> why]

VARIABLES
    renderer,       \* the Renderer struct (its fields), or None
    pc,             \* the statement of render that runs next
    frame,          \* number of render calls begun so far
    hmd_pose,       \* argument of the running call
    eye_rotation,   \* argument of the running call
    scene,          \* argument of the running call
    loaded0,        \* scene indices whose model was loaded when the call began
    fence0,         \* the future the Renderer stored when the call began
    i,              \* position of the running for loop in scene
    left_pv,        \* local of render
    right_pv,       \* local of render
    command_buffer, \* local of render: the commands recorded so far
    built,          \* whether build() has produced the command buffer
    future,         \* local of render: the future made by then_execute
    handoffs,       \* the compositor.submit calls of the running call
    gpuQueue,       \* frames whose command buffer was submitted to the queue
    gpuAfter,       \* for each of them, the future its execution is chained after
    gpuStarted,     \* the frames whose command buffer the GPU has begun to execute
    gpuDone,        \* how many of them the GPU has completed
    tracked,        \* frames whose resources the stored future still holds
    result,         \* what the last render call returned
    failure,        \* the step whose library call failed in this call
    flush_result,   \* what then_signal_fence_and_flush returned in this call
    trace,          \* the steps of the running call, in the order performed
    \* Renderer::new
    npc,            \* the statement of new that runs next
    debug,          \* argument of new
    device_arg,     \* argument of new: device: Option<usize>
    devices,        \* PhysicalDevice::enumerate: the device pointers, in order
    vr_device,      \* system.vulkan_output_device(): Option of a device pointer
    physical,       \* local of new: Option of the index of the chosen device
    families,       \* physical.queue_families(), in order
    queue_family,   \* local of new: Option of a family index
    load_queue_family, \* local of new: Option of a family index
    queues,         \* local of new: the queues Device::new returned
    new_result,     \* what new returned
    \* CLIP
    point,          \* a point (x, y, z, w)
    image           \* CLIP * point, once computed

callVars == <<pc, frame, hmd_pose, eye_rotation, scene, loaded0, fence0, i,
              left_pv, right_pv, command_buffer, built, future, handoffs,
              gpuQueue, gpuAfter, gpuStarted, gpuDone, tracked, result, failure,
              flush_result, trace>>

renderVars == <<renderer, callVars>>

newVars == <<npc, debug, device_arg, devices, vr_device, physical, families,
             queue_family, load_queue_family, queues, new_result>>

clipVars == <<point, image>>

vars == <<renderVars, newVars, clipVars>>

\* --------------------------------------------------------------------- CLIP
\* Numbers are exact multiples of 1/2 or 1/4, which f32 represents exactly:
\* matrix entries and point coordinates are counted in halves, products in
\* quarters.
\* The sixteen arguments of Matrix4::new(..) of lines 47-52, in source order.
ClipArgs == <<2, 0, 0, 0,
              0, -2, 0, 0,
              0, 0, 1, 0,
              0, 0, 1, 2>>

\* The slip of reading the sixteen arguments row by row.
Matrix4New_RowMajor(args) == [c \in 1..4 |-> [r \in 1..4 |-> args[4 * (r - 1) + c]]]

\* cgmath's Matrix4::new takes its arguments column by column: m[c][r].
Matrix4New(args) == [c \in 1..4 |-> [r \in 1..4 |-> args[4 * (c - 1) + r]]]

CLIP == Matrix4New(ClipArgs)

\* Matrix4 * Vector4.
MulVec(m, v) ==
    [r \in 1..4 |-> m[1][r] * v[1] + m[2][r] * v[2] + m[3][r] * v[3] + m[4][r] * v[4]]

\* The points (x, y, z, 1), coordinates in halves.
Points == {<<x, y, z, 2>> : x, y, z \in (-MaxCoord)..MaxCoord}

\* ---------------------------------------------------------- Renderer::new
\* Option<T>: None is the empty sequence, Some(v) the sequence of v.
Absent == <<>>
Some(v) == <<v>>
\* Option::unwrap_or
UnwrapOr(o, d) == IF o = Absent THEN d ELSE o[1]

\* The device pointers the graphics API and the VR runtime may report.
Ptrs == 1..(MaxDevices + 1)
\* What PhysicalDevice::enumerate may yield: distinct devices, in order.
DeviceLists ==
    {s \in UNION {[1..n -> Ptrs] : n \in 0..MaxDevices} :
        \A a, b \in DOMAIN s : a # b => s[a] # s[b]}
\* A queue family: supports_graphics(), explicitly_supports_transfers().
FamilyKinds == [graphics : BOOLEAN, transfer : BOOLEAN]
FamilyLists == UNION {[1..n -> FamilyKinds] : n \in 0..MaxFamilies}

Least(S) == CHOOSE a \in S : \A b \in S : a <= b

\* Iterator::find, given the positions (from 1) of the elements satisfying
\* the predicate: the (0-based) index of the first of them.
Find(hits) == IF hits = {} THEN Absent ELSE Some(Least(hits) - 1)

\* Iterator::skip(n).next(): the (0-based) index of the element after n others.
SkipNext(seq, n) == IF n < Len(seq) THEN Some(n) ELSE Absent

\* The slip of letting the device argument, when given, win over the VR
\* runtime's device.
SelectPhysical_ArgFirst(devs, vr, arg) ==
    LET matched == IF vr = Absent THEN Absent
                   ELSE Find({k \in 1..Len(devs) : devs[k] = vr[1]})
    IN  IF arg # Absent /\ arg[1] < Len(devs) THEN arg
        ELSE IF matched # Absent THEN matched
        ELSE SkipNext(devs, 0)

\* Lines 131-136: the device the VR runtime names, when it is enumerated
\* (and_then .. find), else the fallback (or_else .. skip(..).next()).
SelectPhysical(devs, vr, arg) ==
    LET matched == IF vr = Absent THEN Absent
                   ELSE Find({k \in 1..Len(devs) : devs[k] = vr[1]})
    IN  IF matched # Absent THEN matched
        ELSE SkipNext(devs, UnwrapOr(arg, 0))

\* Lines 152-153: .find(|&q| q.supports_graphics())
GraphicsFamily(fams) == Find({k \in 1..Len(fams) : fams[k].graphics})

\* The slip of always loading through the graphics family.
LoadFamily_GraphicsOnly(fams, graphics_family) == graphics_family

\* Lines 156-158: .find(|&q| q.explicitly_supports_transfers()).unwrap_or(queue_family)
LoadFamily(fams, graphics_family) ==
    LET f == Find({k \in 1..Len(fams) : fams[k].transfer})
    IN  IF f = Absent THEN graphics_family ELSE f[1]

\* Lines 160-170: Device::new yields one queue per requested (family, priority).
RequestedQueues(family, load_family) ==
    <<[family |-> family, priority |-> "0.5"],
      [family |-> load_family, priority |-> "0.2"]>>

\* CLIP * projection_matrix(eye, 0.1, 1000.1)^T * inverse(eye_to_head(eye)).
EyeProjection(eye) == <<"CLIP", <<"projection_matrix", eye>>,
                        <<"inverse", <<"eye_to_head_transform", eye>>>>>>

\* Eye::new(recommended_size, projection, &queue, &render_pass).
NewEye(eye, size, projection) ==
    [projection |-> projection,
     frame_buffer |-> <<"frame_buffer", eye, size>>,
     texture |-> <<"texture", eye, size>>]

\* The recommended render-target size of the session.
RecommendedSize == <<"width", "height">>

\* The struct literal that ends Renderer::new (lines 229-240).
NewRenderer(device, queue, load_queue, size) ==
    [kind |-> "Renderer",
     instance |-> "instance",
     device |-> <<"device", device>>,
     queue |-> queue,
     load_queue |-> load_queue,
     pipeline |-> <<"pipeline", size>>,
     eyes |-> <<NewEye("Left", size, EyeProjection("Left")),
                NewEye("Right", size, EyeProjection("Right"))>>,
     compositor |-> "compositor",
     previous_frame_end |-> NowFuture]

\* The `?` operator of new: the cause wrapped in its RendererCreationError
\* variant, and new returns.
NewErr(variant) ==
    /\ new_result' = [kind |-> "Err", variant |-> variant]
    /\ npc' = "done"

\* An unwrap() of new that meets an Err or a None.
NewPanic(why) ==
    /\ new_result' = Panic(why)
    /\ npc' = "done"

\* What a step of new that only succeeds or fails leaves alone.
NewFrame ==
    UNCHANGED <<renderer, callVars, clipVars, debug, device_arg, devices,
                vr_device>>

\* A statement of new that only succeeds or returns a wrapped error.
Fallible(at, next, variant) ==
    /\ npc = at
    /\ \E ok \in BOOLEAN :
        IF ok THEN npc' = next /\ UNCHANGED new_result
        ELSE NewErr(variant)
    /\ UNCHANGED <<physical, families, queue_family, load_queue_family, queues>>
    /\ NewFrame

\* Lines 58-64: only with debug, vulkano::instance::layers_list()?
ListLayers ==
    /\ npc = "layers"
    /\ IF debug
       THEN \E ok \in BOOLEAN :
                IF ok THEN npc' = "instance" /\ UNCHANGED new_result
                ELSE NewErr("LayersListError")
       ELSE npc' = "instance" /\ UNCHANGED new_result
    /\ UNCHANGED <<physical, families, queue_family, load_queue_family, queues>>
    /\ NewFrame

\* Lines 66-79: Instance::new(..)?
CreateInstance == Fallible("instance", "physical", "InstanceCreationError")

\* Lines 131-137: the physical device, or NoDevices.
ChoosePhysical ==
    /\ npc = "physical"
    /\ physical' = SelectPhysical(devices, vr_device, device_arg)
    /\ IF physical' = Absent
       THEN /\ NewErr("NoDevices")
            /\ UNCHANGED families
       ELSE /\ npc' = "queue_family"
            /\ \E fams \in FamilyLists : families' = fams
            /\ UNCHANGED new_result
    /\ UNCHANGED <<queue_family, load_queue_family, queues>>
    /\ NewFrame

\* Lines 152-154: the graphics family, or NoQueue.
ChooseQueueFamily ==
    /\ npc = "queue_family"
    /\ queue_family' = GraphicsFamily(families)
    /\ IF queue_family' = Absent
       THEN NewErr("NoQueue")
       ELSE npc' = "load_queue_family" /\ UNCHANGED new_result
    /\ UNCHANGED <<physical, families, load_queue_family, queues>>
    /\ NewFrame

\* Lines 156-158.
ChooseLoadQueueFamily ==
    /\ npc = "load_queue_family"
    /\ load_queue_family' = Some(LoadFamily(families, queue_family[1]))
    /\ npc' = "device"
    /\ UNCHANGED <<physical, families, queue_family, queues, new_result>>
    /\ NewFrame

\* Lines 160-171: Device::new(physical, .., families.into_iter())?
CreateDevice ==
    /\ npc = "device"
    /\ \E ok \in BOOLEAN :
        IF ok
        THEN /\ queues' = RequestedQueues(queue_family[1], load_queue_family[1])
             /\ npc' = "queues"
             /\ UNCHANGED new_result
        ELSE /\ NewErr("DeviceCreationError")
             /\ UNCHANGED queues
    /\ UNCHANGED <<physical, families, queue_family, load_queue_family>>
    /\ NewFrame

\* Lines 173-174: queues.next().ok_or(NoQueue)?, twice.
TakeQueues ==
    /\ npc = "queues"
    /\ IF Len(queues) < 2
       THEN NewErr("NoQueue")
       ELSE npc' = "shaders" /\ UNCHANGED new_result
    /\ UNCHANGED <<physical, families, queue_family, load_queue_family, queues>>
    /\ NewFrame

\* Lines 176-177: Shader::load(device).unwrap(), for both shaders.
LoadShaders ==
    /\ npc = "shaders"
    /\ \E ok \in BOOLEAN :
        IF ok THEN npc' = "render_pass" /\ UNCHANGED new_result
        ELSE NewPanic("shader_load")
    /\ UNCHANGED <<physical, families, queue_family, load_queue_family, queues>>
    /\ NewFrame

\* Lines 179-200: single_pass_renderpass!(..)?
CreateRenderPass == Fallible("render_pass", "pipeline", "RenderPassCreationError")

\* Lines 202-213: GraphicsPipeline::start()...build(device)?
CreatePipeline == Fallible("pipeline", "projections", "GraphicsPipelineCreationError")

\* Lines 216-221: inverse_transform().unwrap() of both eye-to-head transforms.
ComputeProjections ==
    /\ npc = "projections"
    /\ \E invertible \in BOOLEAN :
        IF invertible THEN npc' = "eye_left" /\ UNCHANGED new_result
        ELSE NewPanic("inverse_transform")
    /\ UNCHANGED <<physical, families, queue_family, load_queue_family, queues>>
    /\ NewFrame

\* Line 224: Eye::new(recommended_size, proj_left, ..)?
CreateLeftEye == Fallible("eye_left", "eye_right", "EyeCreationError")

\* Line 225: Eye::new(recommended_size, proj_right, ..)?
CreateRightEye == Fallible("eye_right", "finish", "EyeCreationError")

\* Lines 229-240: the fence starts as sync::now; Ok(Renderer { .. }).
Finish ==
    /\ npc = "finish"
    /\ renderer' = NewRenderer(physical[1], queues[1], queues[2], RecommendedSize)
    /\ new_result' = OkResult
    /\ npc' = "done"
    /\ UNCHANGED <<physical, families, queue_family, load_queue_family, queues>>
    /\ UNCHANGED <<callVars, clipVars, debug, device_arg, devices, vr_device>>

\* ------------------------------------------------------- Renderer::render
Running == pc \notin {"idle", "panicked"}

\* Whether the GPU has completed the work of frame k.
GpuCompleted(k) == \E n \in 1..gpuDone : gpuQueue[n] = k

\* The slip of never reclaiming.
CleanupFinished_Never(prev, held) == held

\* GpuFuture::cleanup_finished on the stored future: non-blocking; releases
\* what is held for every frame whose fence is already signalled.
CleanupFinished(prev, held) ==
    IF prev.kind = "fence" THEN {k \in held : ~GpuCompleted(k)} ELSE held

\* eye.projection * Euler(rotation) * inverse(mat4(hmd_pose)).
ViewProjection(eye, rotation, pose) ==
    <<eye.projection, <<"euler", rotation>>, <<"inverse", pose>>>>

Cmd(op, target, entry, constants) ==
    [op |-> op, target |-> target, entry |-> entry, constants |-> constants]

BeginRenderPass(fb) == Cmd("begin_render_pass", fb, 0, <<>>)
EndRenderPass == Cmd("end_render_pass", <<>>, 0, <<>>)
\* draw_indexed(pipeline, state, model.vertices, model.indices, model.set, pv * matrix)
DrawIndexed(n, pv, matrix) == Cmd("draw_indexed", renderer.pipeline, n, <<pv, matrix>>)

\* The slip of recording a draw for every entry.
Skips_Never(entry) == FALSE

\* The `if !model.loaded() { continue }` of both loops.
Skips(entry) == ~entry.loaded

\* The slip of swallowing the error.
Propagate_Swallow(variant) == OkResult

\* The `?` operator: the library error wrapped in its RenderError variant.
Propagate(variant) == [kind |-> "Err", variant |-> variant]

\* A `?` that fails before previous_frame_end is taken: render returns at
\* once; the builder is dropped, nothing else changes.
ReturnErr(step, variant) ==
    /\ result' = Propagate(variant)
    /\ failure' = step
    /\ pc' = "return"

\* Line 244, with the call's arguments bound.
RenderBegin ==
    /\ UNCHANGED <<newVars, clipVars>>
    /\ pc = "idle"
    /\ frame < MaxFrames
    /\ \E pose \in Poses, rot \in EyeRotations, sc \in Scenes :
        /\ hmd_pose' = pose
        /\ eye_rotation' = rot
        /\ scene' = sc
        /\ loaded0' = {n \in 1..Len(sc) : sc[n].loaded}
    /\ fence0' = renderer.previous_frame_end
    /\ frame' = frame + 1
    /\ trace' = <<"cleanup_finished">>
    /\ flush_result' = "none"
    /\ UNCHANGED <<i, left_pv, right_pv, command_buffer, built, future,
                   handoffs, failure>>
    /\ IF renderer.previous_frame_end = None
       THEN \* Option::unwrap on None
            /\ pc' = "panicked"
            /\ result' = Panic("unwrap_none")
            /\ tracked' = tracked
       ELSE /\ pc' = "matrices"
            /\ result' = NoResult
            /\ tracked' = CleanupFinished(renderer.previous_frame_end, tracked)
    /\ UNCHANGED <<renderer, gpuQueue, gpuAfter, gpuStarted, gpuDone>>

\* The slip of multiplying the stored projections in place.
ComputeMatrices_InPlace ==
    /\ UNCHANGED <<newVars, clipVars>>
    /\ pc = "matrices"
    /\ hmd_pose # "singular"
    /\ pc' = "new"
    /\ left_pv' = ViewProjection(renderer.eyes[1], eye_rotation[1], hmd_pose)
    /\ right_pv' = ViewProjection(renderer.eyes[2], eye_rotation[2], hmd_pose)
    /\ renderer' = [renderer EXCEPT !.eyes[1].projection = left_pv',
                                    !.eyes[2].projection = right_pv']
    /\ UNCHANGED <<frame, hmd_pose, eye_rotation, scene, loaded0, fence0, i,
                   command_buffer, built, future, handoffs, gpuQueue, gpuAfter, gpuStarted, gpuDone,
                   tracked, result, failure, flush_result, trace>>

\* Lines 246-256.
ComputeMatrices ==
    /\ UNCHANGED <<newVars, clipVars>>
    /\ pc = "matrices"
    /\ IF hmd_pose = "singular"
       THEN \* inverse_transform() is None and is unwrapped
            /\ pc' = "panicked"
            /\ result' = Panic("inverse_transform")
            /\ UNCHANGED <<left_pv, right_pv>>
       ELSE /\ pc' = "new"
            /\ left_pv' = ViewProjection(renderer.eyes[1], eye_rotation[1], hmd_pose)
            /\ right_pv' = ViewProjection(renderer.eyes[2], eye_rotation[2], hmd_pose)
            /\ UNCHANGED result
    /\ UNCHANGED <<renderer, frame, hmd_pose, eye_rotation, scene, loaded0, fence0, i,
                   command_buffer, built, future, handoffs, gpuQueue, gpuAfter, gpuStarted, gpuDone,
                   tracked, failure, flush_result, trace>>

\* What the steps that only record commands leave alone.
RecordingFrame ==
    UNCHANGED <<newVars, clipVars, renderer, frame, hmd_pose, eye_rotation, scene, loaded0, fence0,
                left_pv, right_pv, future, handoffs, gpuQueue, gpuAfter, gpuStarted, gpuDone,
                tracked, flush_result>>

\* Line 258: AutoCommandBufferBuilder::new(device, family)?
NewCommandBuffer ==
    /\ pc = "new"
    /\ trace' = Append(trace, "new")
    /\ \E ok \in BOOLEAN :
        IF ok
        THEN /\ pc' = "begin_left"
             /\ UNCHANGED <<result, failure>>
        ELSE ReturnErr("new", "OomError")
    /\ UNCHANGED <<command_buffer, built, i>>
    /\ RecordingFrame

\* Lines 259-262: .begin_render_pass(eyes.0.frame_buffer, ..)?
BeginLeft ==
    /\ pc = "begin_left"
    /\ trace' = Append(trace, "begin_left")
    /\ \E ok \in BOOLEAN :
        IF ok
        THEN /\ pc' = "left_loop"
             /\ command_buffer' = Append(command_buffer,
                                         BeginRenderPass(renderer.eyes[1].frame_buffer))
             /\ i' = 1
             /\ UNCHANGED <<result, failure>>
        ELSE /\ ReturnErr("begin_left", "BeginRenderPassError")
             /\ UNCHANGED <<command_buffer, i>>
    /\ UNCHANGED built
    /\ RecordingFrame

\* One iteration of a for loop over scene (lines 264-272 and 280-288).
Iteration(loop, step, pv) ==
    /\ pc = loop
    /\ i <= Len(scene)
    /\ IF Skips(scene[i])
       THEN /\ i' = i + 1
            /\ UNCHANGED <<pc, command_buffer, result, failure, trace>>
       ELSE /\ trace' = Append(trace, step)
            /\ \E ok \in BOOLEAN :
                IF ok
                THEN /\ command_buffer' = Append(command_buffer,
                                                 DrawIndexed(i, pv, scene[i].matrix))
                     /\ i' = i + 1
                     /\ UNCHANGED <<pc, result, failure>>
                ELSE /\ ReturnErr(step, "DrawIndexedError")
                     /\ UNCHANGED <<command_buffer, i>>
    /\ UNCHANGED built
    /\ RecordingFrame

LeftIteration == Iteration("left_loop", "draw_left", left_pv)

\* Line 274: the left loop is over; .end_render_pass()?
EndLeft ==
    /\ pc = "left_loop"
    /\ i > Len(scene)
    /\ trace' = Append(trace, "end_left")
    /\ \E ok \in BOOLEAN :
        IF ok
        THEN /\ pc' = "begin_right"
             /\ command_buffer' = Append(command_buffer, EndRenderPass)
             /\ UNCHANGED <<result, failure>>
        ELSE /\ ReturnErr("end_left", "AutoCommandBufferBuilderContextError")
             /\ UNCHANGED command_buffer
    /\ UNCHANGED <<built, i>>
    /\ RecordingFrame

\* Lines 275-278: .begin_render_pass(eyes.1.frame_buffer, ..)?
BeginRight ==
    /\ pc = "begin_right"
    /\ trace' = Append(trace, "begin_right")
    /\ \E ok \in BOOLEAN :
        IF ok
        THEN /\ pc' = "right_loop"
             /\ command_buffer' = Append(command_buffer,
                                         BeginRenderPass(renderer.eyes[2].frame_buffer))
             /\ i' = 1
             /\ UNCHANGED <<result, failure>>
        ELSE /\ ReturnErr("begin_right", "BeginRenderPassError")
             /\ UNCHANGED <<command_buffer, i>>
    /\ UNCHANGED built
    /\ RecordingFrame

RightIteration == Iteration("right_loop", "draw_right", right_pv)

\* Line 290: the right loop is over; .end_render_pass()?
EndRight ==
    /\ pc = "right_loop"
    /\ i > Len(scene)
    /\ trace' = Append(trace, "end_right")
    /\ \E ok \in BOOLEAN :
        IF ok
        THEN /\ pc' = "build"
             /\ command_buffer' = Append(command_buffer, EndRenderPass)
             /\ UNCHANGED <<result, failure>>
        ELSE /\ ReturnErr("end_right", "AutoCommandBufferBuilderContextError")
             /\ UNCHANGED command_buffer
    /\ UNCHANGED <<built, i>>
    /\ RecordingFrame

\* The slip of taking the stored future before the command buffer is built.
Build_TakesFirst ==
    /\ UNCHANGED <<newVars, clipVars>>
    /\ pc = "build"
    /\ trace' = Append(trace, "build")
    /\ renderer' = [renderer EXCEPT !.previous_frame_end = None]
    /\ \E ok \in BOOLEAN :
        IF ok
        THEN /\ pc' = "then_execute"
             /\ built' = TRUE
             /\ UNCHANGED <<result, failure>>
        ELSE /\ ReturnErr("build", "BuildError")
             /\ UNCHANGED built
    /\ UNCHANGED <<frame, hmd_pose, eye_rotation, scene, loaded0, fence0, i,
                   left_pv, right_pv, command_buffer, future, handoffs,
                   gpuQueue, gpuAfter, gpuStarted, gpuDone, tracked,
                   flush_result>>

\* Line 291: .build()?
Build ==
    /\ pc = "build"
    /\ trace' = Append(trace, "build")
    /\ \E ok \in BOOLEAN :
        IF ok
        THEN /\ pc' = "then_execute"
             /\ built' = TRUE
             /\ UNCHANGED <<result, failure>>
        ELSE /\ ReturnErr("build", "BuildError")
             /\ UNCHANGED built
    /\ UNCHANGED <<command_buffer, i>>
    /\ RecordingFrame

\* The slip of executing after a fresh sync::now instead of the stored future.
ExecFuture_Unchained(prev, k) == [kind |-> "exec", frame |-> k, previous |-> NowFuture]

\* CommandBufferExecFuture made by then_execute: holds the future it follows.
ExecFuture(prev, k) == [kind |-> "exec", frame |-> k, previous |-> prev]

\* Lines 293-295: previous_frame_end.take().unwrap().then_execute(queue, cb)?
\* take() leaves None in the Renderer. When then_execute fails the taken
\* future is dropped, and dropping a flushed future waits for its GPU work.
ThenExecute ==
    /\ UNCHANGED <<newVars, clipVars>>
    /\ pc = "then_execute"
    /\ trace' = Append(trace, "then_execute")
    /\ renderer' = [renderer EXCEPT !.previous_frame_end = None]
    /\ \E ok \in BOOLEAN :
        IF ok
        THEN /\ pc' = "submit_left"
             /\ future' = ExecFuture(renderer.previous_frame_end, frame)
             /\ UNCHANGED <<result, failure>>
        ELSE /\ pc' = "drop"
             /\ result' = Propagate("CommandBufferExecError")
             /\ failure' = "then_execute"
             /\ UNCHANGED future
    /\ UNCHANGED <<frame, hmd_pose, eye_rotation, scene, loaded0, fence0, i, left_pv,
                   right_pv, command_buffer, built, handoffs, gpuQueue, gpuAfter, gpuStarted, gpuDone,
                   tracked, flush_result>>

\* compositor.submit(eye, &texture, None, Some(hmd_pose.clone()))
Handoff(eye, texture, pose) == [eye |-> eye, texture |-> texture, pose |-> pose]

\* One compositor.submit(..)? of lines 298-299. When it fails `future` is
\* dropped: an unflushed CommandBufferExecFuture is flushed by its drop (the
\* command buffer reaches the queue) and the drop then waits for the queue.
Submit(at, eye, texture, next) ==
    /\ UNCHANGED <<newVars, clipVars>>
    /\ pc = at
    /\ trace' = Append(trace, at)
    /\ \E ok \in BOOLEAN :
        IF ok
        THEN /\ pc' = next
             /\ handoffs' = Append(handoffs, Handoff(eye, texture, hmd_pose))
             /\ UNCHANGED <<result, failure, future, gpuQueue, gpuAfter, gpuStarted>>
        ELSE /\ pc' = "drop"
             /\ result' = Propagate("CompositorError")
             /\ failure' = at
             /\ future' = None
             /\ gpuQueue' = Append(gpuQueue, frame)
             /\ gpuAfter' = Append(gpuAfter, future.previous)
             /\ UNCHANGED <<handoffs, gpuStarted>>
    /\ UNCHANGED <<renderer, frame, hmd_pose, eye_rotation, scene, loaded0, fence0, i,
                   left_pv, right_pv, command_buffer, built, gpuDone, tracked,
                   flush_result>>

\* The slip of handing the right eye's texture over first.
SubmitLeft_HandsRight ==
    Submit("submit_left", "Right", renderer.eyes[2].texture, "submit_right")

SubmitLeft == Submit("submit_left", "Left", renderer.eyes[1].texture, "submit_right")

SubmitRight == Submit("submit_right", "Right", renderer.eyes[2].texture, "flush")

\* The slip of an out-of-date arm that stores no future.
FlushArm_NoReset(outcome, k) ==
    CASE outcome = "Ok" ->
            [previous_frame_end |-> FenceSignalFuture(k), result |-> OkResult]
      [] outcome = "OutOfDate" ->
            [previous_frame_end |-> None, result |-> OkResult]
      [] OTHER ->
            [previous_frame_end |-> None, result |-> Propagate("FlushError")]

\* The match of lines 304-313 on what then_signal_fence_and_flush returned:
\* the future stored in the Renderer and what render returns.
FlushArm(outcome, k) ==
    CASE outcome = "Ok" ->
            [previous_frame_end |-> FenceSignalFuture(k), result |-> OkResult]
      [] outcome = "OutOfDate" ->
            [previous_frame_end |-> NowFuture, result |-> OkResult]
      [] OTHER ->
            [previous_frame_end |-> None, result |-> Propagate("FlushError")]

FlushOutcomes == {"Ok", "OutOfDate", "Err"}

\* Line 302: future.then_signal_fence_and_flush(). On success the command
\* buffer is on the queue and the new future holds the frame's resources and
\* everything the previous future held. On failure the library drops the
\* futures before render sees the error.
FenceAndFlush ==
    /\ UNCHANGED <<newVars, clipVars>>
    /\ pc = "flush"
    /\ trace' = Append(trace, "flush")
    /\ future' = None
    /\ \E outcome \in FlushOutcomes :
        /\ flush_result' = outcome
        /\ IF outcome = "Ok"
           THEN /\ gpuQueue' = Append(gpuQueue, frame)
                /\ gpuAfter' = Append(gpuAfter, future.previous)
                /\ tracked' = tracked \cup {frame}
                /\ renderer' = [renderer EXCEPT !.previous_frame_end =
                                    FlushArm(outcome, frame).previous_frame_end]
                /\ result' = FlushArm(outcome, frame).result
                /\ pc' = "return"
                /\ UNCHANGED <<failure, gpuStarted>>
           ELSE /\ pc' = "drop"
                /\ failure' = "flush"
                /\ UNCHANGED <<gpuQueue, gpuAfter, gpuStarted, tracked, renderer, result>>
    /\ UNCHANGED <<frame, hmd_pose, eye_rotation, scene, loaded0, fence0, i, left_pv,
                   right_pv, command_buffer, built, handoffs, gpuDone>>

\* The drop of the future chain has waited for the GPU: everything the
\* chain held is released, and render goes on to its return (for a failed
\* flush, through the match of lines 304-313).
DropFuture ==
    /\ UNCHANGED <<newVars, clipVars>>
    /\ pc = "drop"
    /\ gpuDone = Len(gpuQueue)
    /\ tracked' = {}
    /\ pc' = "return"
    /\ IF flush_result = "none"
       THEN UNCHANGED <<renderer, result>>
       ELSE /\ renderer' = [renderer EXCEPT !.previous_frame_end =
                                FlushArm(flush_result, frame).previous_frame_end]
            /\ result' = FlushArm(flush_result, frame).result
    /\ UNCHANGED <<frame, hmd_pose, eye_rotation, scene, loaded0, fence0, i, left_pv,
                   right_pv, command_buffer, built, future, handoffs, gpuQueue, gpuAfter, gpuStarted,
                   gpuDone, failure, flush_result, trace>>

\* render has returned to its caller: its arguments and locals are gone.
Return ==
    /\ UNCHANGED <<newVars, clipVars>>
    /\ pc = "return"
    /\ pc' = "idle"
    /\ hmd_pose' = "pose_a"
    /\ eye_rotation' = <<"rot_l", "rot_r">>
    /\ scene' = <<>>
    /\ loaded0' = {}
    /\ fence0' = None
    /\ i' = 0
    /\ left_pv' = <<>>
    /\ right_pv' = <<>>
    /\ command_buffer' = <<>>
    /\ built' = FALSE
    /\ future' = None
    /\ handoffs' = <<>>
    /\ failure' = "none"
    /\ trace' = <<>>
    /\ UNCHANGED <<renderer, frame, gpuQueue, gpuAfter, gpuStarted, gpuDone, tracked, result,
                   flush_result>>

\* ------------------------------------------------------------- environment
\* Whether the GPU-side wait on future f is over: sync::now is complete
\* from the start, a fence-signal future once its frame's work is.
Signalled(f) == f.kind = "now" \/ (f.kind = "fence" /\ GpuCompleted(f.frame))

\* The GPU begins to execute a submitted command buffer: then_execute made
\* its execution wait for the future it was chained after, and for nothing
\* else.
GpuStart ==
    /\ UNCHANGED <<newVars, clipVars>>
    /\ \E n \in 1..Len(gpuQueue) :
        /\ gpuQueue[n] \notin gpuStarted
        /\ Signalled(gpuAfter[n])
        /\ gpuStarted' = gpuStarted \cup {gpuQueue[n]}
    /\ UNCHANGED <<renderer, pc, frame, hmd_pose, eye_rotation, scene, loaded0,
                   fence0, i, left_pv, right_pv, command_buffer, built, future,
                   handoffs, gpuQueue, gpuAfter, gpuDone, tracked, result,
                   failure, flush_result, trace>>

\* The GPU completes the oldest submitted command buffer, once begun.
GpuComplete ==
    /\ UNCHANGED <<newVars, clipVars>>
    /\ gpuDone < Len(gpuQueue)
    /\ gpuQueue[gpuDone + 1] \in gpuStarted
    /\ gpuDone' = gpuDone + 1
    /\ UNCHANGED <<renderer, pc, frame, hmd_pose, eye_rotation, scene, loaded0, fence0,
                   i, left_pv, right_pv, command_buffer, built, future,
                   handoffs, gpuQueue, gpuAfter, gpuStarted, tracked, result, failure, flush_result,
                   trace>>

\* The asset loader finishes the upload of a model of the scene.
LoaderFinishes ==
    /\ UNCHANGED <<newVars, clipVars>>
    /\ Running
    /\ \E n \in 1..Len(scene) :
        /\ ~scene[n].loaded
        /\ scene' = [scene EXCEPT ![n].loaded = TRUE]
    /\ UNCHANGED <<renderer, pc, frame, hmd_pose, eye_rotation, loaded0, fence0, i,
                   left_pv, right_pv, command_buffer, built, future, handoffs,
                   gpuQueue, gpuAfter, gpuStarted, gpuDone, tracked, result, failure, flush_result,
                   trace>>

\* ----------------------------------------------------------- specification
\* No render call has been made.
CallInit ==
    /\ pc = "idle"
    /\ frame = 0
    /\ hmd_pose = "pose_a"
    /\ eye_rotation = <<"rot_l", "rot_r">>
    /\ scene = <<>>
    /\ loaded0 = {}
    /\ fence0 = None
    /\ i = 0
    /\ left_pv = <<>>
    /\ right_pv = <<>>
    /\ command_buffer = <<>>
    /\ built = FALSE
    /\ future = None
    /\ handoffs = <<>>
    /\ gpuQueue = <<>>
    /\ gpuAfter = <<>>
    /\ gpuStarted = {}
    /\ gpuDone = 0
    /\ tracked = {}
    /\ result = NoResult
    /\ failure = "none"
    /\ flush_result = "none"
    /\ trace = <<>>

ClipIdle ==
    /\ point = <<0, 0, 0, 0>>
    /\ image = <<>>

\* The state after a successful Renderer::new on a machine with one device
\* whose only queue family does graphics and transfers.
Init ==
    /\ CallInit
    /\ ClipIdle
    /\ npc = "done"
    /\ debug = FALSE
    /\ device_arg = Absent
    /\ devices = <<1>>
    /\ vr_device = Some(1)
    /\ physical = Some(0)
    /\ families = <<[graphics |-> TRUE, transfer |-> TRUE]>>
    /\ queue_family = Some(0)
    /\ load_queue_family = Some(0)
    /\ queues = RequestedQueues(0, 0)
    /\ new_result = OkResult
    /\ renderer = NewRenderer(0, queues[1], queues[2], RecommendedSize)

Next ==
    \/ RenderBegin
    \/ ComputeMatrices
    \/ NewCommandBuffer
    \/ BeginLeft
    \/ LeftIteration
    \/ EndLeft
    \/ BeginRight
    \/ RightIteration
    \/ EndRight
    \/ Build
    \/ ThenExecute
    \/ SubmitLeft
    \/ SubmitRight
    \/ FenceAndFlush
    \/ DropFuture
    \/ Return
    \/ GpuStart
    \/ GpuComplete
    \/ LoaderFinishes

Spec == Init /\ [][Next]_vars

\* Renderer::new is called: any enumeration, any answer of the VR runtime.
InitNew ==
    /\ CallInit
    /\ ClipIdle
    /\ renderer = None
    /\ npc = "layers"
    /\ debug \in BOOLEAN
    /\ device_arg \in {Absent} \cup {Some(n) : n \in 0..MaxDevices}
    /\ devices \in DeviceLists
    /\ vr_device \in {Absent} \cup {Some(p) : p \in Ptrs}
    /\ physical = Absent
    /\ families = <<>>
    /\ queue_family = Absent
    /\ load_queue_family = Absent
    /\ queues = <<>>
    /\ new_result = NoResult

NextNew ==
    \/ ListLayers
    \/ CreateInstance
    \/ ChoosePhysical
    \/ ChooseQueueFamily
    \/ ChooseLoadQueueFamily
    \/ CreateDevice
    \/ TakeQueues
    \/ LoadShaders
    \/ CreateRenderPass
    \/ CreatePipeline
    \/ ComputeProjections
    \/ CreateLeftEye
    \/ CreateRightEye
    \/ Finish

SpecNew == InitNew /\ [][NextNew]_vars

\* CLIP is applied to a point.
InitClip ==
    /\ CallInit
    /\ npc = "done"
    /\ debug = FALSE
    /\ device_arg = Absent
    /\ devices = <<1>>
    /\ vr_device = Some(1)
    /\ physical = Some(0)
    /\ families = <<[graphics |-> TRUE, transfer |-> TRUE]>>
    /\ queue_family = Some(0)
    /\ load_queue_family = Some(0)
    /\ queues = RequestedQueues(0, 0)
    /\ new_result = OkResult
    /\ renderer = NewRenderer(0, queues[1], queues[2], RecommendedSize)
    /\ point \in Points
    /\ image = <<>>

ApplyClip ==
    /\ image = <<>>
    /\ image' = MulVec(CLIP, point)
    /\ UNCHANGED <<renderVars, newVars, point>>

NextClip == ApplyClip

SpecClip == InitClip /\ [][NextClip]_vars

\* =================================================================== claims
Last(seq) == seq[Len(seq)]

\* The fields of a Renderer other than the in-flight fence.
OtherFields(r) == [r EXCEPT !.previous_frame_end = None]

\* The draws recorded in the render pass on frame buffer fb: the
\* draw_indexed commands that follow its begin_render_pass.
PassDraws(cb, fb) ==
    LET begins == {k \in 1..Len(cb) :
                      cb[k].op = "begin_render_pass" /\ cb[k].target = fb}
    IN  IF begins = {} THEN <<>>
        ELSE LET b == Least(begins)
                 stops == {k \in (b + 1)..Len(cb) : cb[k].op # "draw_indexed"}
                             \cup {Len(cb) + 1}
             IN  SubSeq(cb, b + 1, Least(stops) - 1)

LeftDraws == PassDraws(command_buffer, renderer.eyes[1].frame_buffer)
RightDraws == PassDraws(command_buffer, renderer.eyes[2].frame_buffer)

\* One indexed draw per scene entry whose index is in S, in scene order.
DrawsFor(S, pv) ==
    LET order == SelectSeq([n \in 1..Len(scene) |-> n], LAMBDA n : n \in S)
    IN  [k \in 1..Len(order) |->
            Cmd("draw_indexed", renderer.pipeline, order[k],
                <<pv, scene[order[k]].matrix>>)]

LoadedNow == {n \in 1..Len(scene) : scene[n].loaded}

\* Both render passes have been recorded and ended.
RecordingEnded ==
    Cardinality({k \in 1..Len(command_buffer) :
                    command_buffer[k].op = "end_render_pass"}) = 2

\* C1 (as claimed): whenever no render call is running, before the first
\* call, between calls and after a call that returned a RenderError, the
\* Renderer holds an in-flight fence.
C1_FenceNeverAbsent ==
    pc \in {"idle", "return"} => renderer.previous_frame_end # None

\* C2: once both passes are recorded, the draws of each pass are exactly the
\* scene entries whose model is loaded(), in scene order, one draw each with
\* that eye's view-projection times the entry's matrix. loaded() is read once
\* per entry and pass while the loader may finish uploads, so "loaded" is
\* pinned from both sides: every entry loaded when the call began is drawn,
\* no entry still not loaded is drawn; when no flag changed during the call
\* the two bounds meet and each pass is exactly the loaded entries.
C2_DrawsAreLoadedEntries ==
    RecordingEnded =>
        /\ \E S \in SUBSET (1..Len(scene)) :
                /\ loaded0 \subseteq S
                /\ S \subseteq LoadedNow
                /\ LeftDraws = DrawsFor(S, left_pv)
        /\ \E S \in SUBSET (1..Len(scene)) :
                /\ loaded0 \subseteq S
                /\ S \subseteq LoadedNow
                /\ RightDraws = DrawsFor(S, right_pv)

\* A scene of one model that is not loaded followed by one that is: the
\* first is skipped, the second drawn once per eye, and recording ended.
C2_Witness ==
    /\ RecordingEnded
    /\ Len(scene) = 2
    /\ LoadedNow = {2}
    /\ Len(LeftDraws) = 1 /\ LeftDraws[1].entry = 2
    /\ Len(RightDraws) = 1 /\ RightDraws[1].entry = 2

\* C3: a render call whose fence+flush request fails out-of-date returns Ok
\* and leaves a fresh already-complete future in the Renderer, and the render
\* call after it gets past the unwrap of the stored future.
C3_OutOfDateSelfHeals ==
    [][/\ (pc' = "return" /\ flush_result' = "OutOfDate")
            => (result' = OkResult /\ renderer'.previous_frame_end = NowFuture)
       /\ (pc = "idle" /\ flush_result = "OutOfDate" /\ pc' # "idle")
            => pc' = "matrices"]_vars

\* A first call has returned Ok after an out-of-date flush, with a fresh
\* future stored, and the caller may call render again.
C3_Witness ==
    /\ pc = "idle"
    /\ frame = 1
    /\ flush_result = "OutOfDate"
    /\ result = OkResult
    /\ renderer.previous_frame_end = NowFuture

RenderErrorVariants ==
    {"OomError", "BeginRenderPassError", "DrawIndexedError",
     "AutoCommandBufferBuilderContextError", "BuildError",
     "CommandBufferExecError", "CompositorError", "FlushError"}

\* C4: when a step's library call fails, other than an out-of-date flush,
\* that step is the last step the call performs and the call returns a
\* RenderError; and a RenderError is returned only after such a failure.
C4_FailurePropagates ==
    /\ (failure # "none" /\ flush_result # "OutOfDate") =>
            /\ pc \in {"drop", "return"}
            /\ Last(trace) = failure
            /\ pc = "return" =>
                    (result.kind = "Err" /\ result.variant \in RenderErrorVariants)
    /\ (pc = "return" /\ result.kind = "Err") => failure # "none"

\* The right hand-off failed after the left one succeeded.
C4_Witness ==
    /\ pc = "return"
    /\ failure = "submit_right"
    /\ result = [kind |-> "Err", variant |-> "CompositorError"]
    /\ Len(handoffs) = 1
    /\ flush_result = "none"

\* C8: whatever render calls were made and however they ended, every field
\* of the Renderer but the in-flight fence is as Renderer::new set it.
C8_OnlyFenceChanges ==
    OtherFields(renderer) =
        OtherFields(NewRenderer(0, RequestedQueues(0, 0)[1],
                                RequestedQueues(0, 0)[2], RecommendedSize))

\* A first call succeeded (the fence was replaced) and a second one failed
\* at the left hand-off (the fence is gone).
C8_Witness ==
    /\ pc = "return"
    /\ frame = 2
    /\ Len(gpuQueue) >= 1 /\ gpuQueue[1] = 1
    /\ failure = "submit_left"
    /\ result.kind = "Err"
    /\ renderer.previous_frame_end = None

PhysicalStepDone ==
    /\ npc \notin {"layers", "instance", "physical"}
    /\ new_result.variant \notin {"LayersListError", "InstanceCreationError"}

VrMatches == {k \in 1..Len(devices) : vr_device = Some(devices[k])}

C5_DeviceSelection ==
    PhysicalStepDone =>
        /\ \A k \in VrMatches : physical = Some(k - 1)
        /\ (VrMatches = {} /\ UnwrapOr(device_arg, 0) < Len(devices))
                => physical = Some(UnwrapOr(device_arg, 0))

\* The VR runtime names the second of two devices, the argument the first.
C5_Witness ==
    /\ PhysicalStepDone
    /\ Len(devices) = 2
    /\ vr_device = Some(devices[2])
    /\ device_arg = Some(0)
    /\ physical = Some(1)

\* C6 (as claimed): new returns NoDevices only when nothing is enumerated.
C6_NoDevicesOnlyWhenNoneEnumerated ==
    (new_result = [kind |-> "Err", variant |-> "NoDevices"]) => devices = <<>>

\* C7 (as claimed): new ends with a complete Renderer, or with a
\* RendererCreationError and no Renderer.
C7_RendererOrError ==
    npc = "done" =>
        \/ new_result.kind = "Ok" /\ renderer # None
        \/ new_result.kind = "Err" /\ renderer = None

\* C10: CLIP * (x, y, z, 1) = (x, -y, 0.5 z + 0.5, 1), and z in [-1, 1] gives
\* a depth in [0, 1]. (Coordinates in halves, the image in quarters.)
C10_ClipCorrection ==
    image # <<>> =>
        /\ image = <<2 * point[1], -2 * point[2], point[3] + 2, 4>>
        /\ point[3] \in -2..2 => image[3] \in 0..4

\* (1, 1, -1, 1) is mapped to (1, -1, 0, 1).
C10_Witness ==
    /\ point = <<2, 2, -2, 2>>
    /\ image = <<4, -4, 0, 4>>

\* C11: the GPU begins the work of a submitted frame only when the work of
\* every frame submitted before it is complete (so at most one frame's work
\* is in execution), and no two frames are submitted side by side: every
\* submission after the first is chained after the fence of the submission
\* before it, or is made when the GPU has completed everything submitted.
C11_SubmissionsChained ==
    /\ \A n \in 1..Len(gpuQueue) :
            gpuQueue[n] \in gpuStarted => gpuDone >= n - 1
    /\ \A n \in 2..Len(gpuQueue) :
            /\ gpuQueue[n - 1] < gpuQueue[n]
            /\ \/ gpuAfter[n] = FenceSignalFuture(gpuQueue[n - 1])
               \/ gpuDone >= n - 1

\* Frame 2 was submitted while the GPU was still at frame 1, chained after
\* frame 1's fence, and has not begun.
C11_Witness ==
    /\ gpuQueue = <<1, 2>>
    /\ gpuAfter[2] = FenceSignalFuture(1)
    /\ gpuStarted = {1}
    /\ gpuDone = 0

\* The steps of a render call, in the order the claim gives them; the draws
\* of a pass stand between its begin and its end.
StepOrder ==
    <<"cleanup_finished", "new", "begin_left", "draw_left", "end_left",
      "begin_right", "draw_right", "end_right", "build", "then_execute",
      "submit_left", "submit_right", "flush">>

Rank(step) == CHOOSE n \in 1..Len(StepOrder) : StepOrder[n] = step

Draws == {"draw_left", "draw_right"}

Performed(step) == \E a \in 1..Len(trace) : trace[a] = step

\* C12: the steps a render call has performed so far are in the order
\* reclaim, left pass, right pass, build, chain, left hand-off, right
\* hand-off, fence+flush: none is performed before all the steps ahead of
\* it, none twice (but the draws of a pass); the hand-offs made are the left
\* eye's texture and then the right eye's, each with the head pose the call
\* was given, and the right one is made only after the left one succeeded.
C12_StepOrder ==
    /\ \A a, b \in 1..Len(trace) :
            a < b => \/ Rank(trace[a]) < Rank(trace[b])
                     \/ trace[a] = trace[b] /\ trace[a] \in Draws
    /\ \A b \in 1..Len(trace) :
            \A n \in 1..(Rank(trace[b]) - 1) :
                StepOrder[n] \notin Draws => Performed(StepOrder[n])
    /\ Len(handoffs) <= 2
    /\ Len(handoffs) >= 1 =>
            /\ handoffs[1] = Handoff("Left", renderer.eyes[1].texture, hmd_pose)
            /\ Performed("submit_left")
            /\ failure # "submit_left"
    /\ Len(handoffs) = 2 =>
            /\ handoffs[2] = Handoff("Right", renderer.eyes[2].texture, hmd_pose)
            /\ Performed("submit_right")
    /\ Performed("submit_right") => Len(handoffs) >= 1
    /\ Performed("flush") => Len(handoffs) = 2

\* A call given pose_b and a scene of one loaded model went through every
\* step and handed both eyes over.
C12_Witness ==
    /\ pc = "return"
    /\ hmd_pose = "pose_b"
    /\ trace = <<"cleanup_finished", "new", "begin_left", "draw_left",
                 "end_left", "begin_right", "draw_right", "end_right", "build",
                 "then_execute", "submit_left", "submit_right", "flush">>
    /\ Len(handoffs) = 2
    /\ handoffs[2].pose = "pose_b"

\* A step of the running render call itself (not of the GPU or the loader).
RenderStep ==
    \/ ComputeMatrices
    \/ NewCommandBuffer
    \/ BeginLeft
    \/ LeftIteration
    \/ EndLeft
    \/ BeginRight
    \/ RightIteration
    \/ EndRight
    \/ Build
    \/ ThenExecute
    \/ SubmitLeft
    \/ SubmitRight
    \/ FenceAndFlush
    \/ DropFuture
    \/ Return

\* C13 (as claimed): render never waits for the GPU: whatever the GPU has
\* completed, a running call can take its next step, up to its return.
C13_NeverWaitsForGpu == Running => ENABLED RenderStep

\* Position k is the first family of the chosen device that does graphics
\* (that explicitly does transfers).
FirstGraphics(k) ==
    families[k].graphics /\ \A j \in 1..(k - 1) : ~families[j].graphics
FirstTransfer(k) ==
    families[k].transfer /\ \A j \in 1..(k - 1) : ~families[j].transfer

\* new has made its choice of the graphics family (of the load family).
GraphicsStepDone == physical # Absent /\ npc # "queue_family"
LoadStepDone == queue_family # Absent /\ npc # "load_queue_family"

\* C14: the graphics family is the first that supports graphics, and new
\* fails with NoQueue (and makes no Renderer) when there is none; the load
\* family is the first that explicitly supports transfers, or the graphics
\* family when there is none; a Renderer that new returns has as graphics
\* queue the first queue the device creation returned, of the graphics
\* family, and as load queue the second, of the load family.
C14_QueueSelection ==
    /\ GraphicsStepDone =>
            /\ \A k \in 1..Len(families) :
                    FirstGraphics(k) => queue_family = Some(k - 1)
            /\ (\A k \in 1..Len(families) : ~families[k].graphics) =>
                    /\ new_result = [kind |-> "Err", variant |-> "NoQueue"]
                    /\ renderer = None
    /\ LoadStepDone =>
            /\ \A k \in 1..Len(families) :
                    FirstTransfer(k) => load_queue_family = Some(k - 1)
            /\ (\A k \in 1..Len(families) : ~families[k].transfer) =>
                    load_queue_family = queue_family
    /\ new_result = OkResult =>
            /\ Len(queues) = 2
            /\ renderer.queue = queues[1]
            /\ renderer.load_queue = queues[2]
            /\ renderer.queue.family = queue_family[1]
            /\ renderer.load_queue.family = load_queue_family[1]

\* The device's first family only does transfers, its second only
\* graphics: the Renderer's graphics queue is of the second family, its
\* load queue of the first.
C14_Witness ==
    /\ new_result = OkResult
    /\ families = <<[graphics |-> FALSE, transfer |-> TRUE],
                    [graphics |-> TRUE, transfer |-> FALSE]>>
    /\ renderer.queue.family = 1
    /\ renderer.load_queue.family = 0

\* The steps of render before its submission is chained (lines 258-291).
RecordingSteps ==
    {"new", "begin_left", "draw_left", "end_left", "begin_right",
     "draw_right", "end_right", "build"}

Submitted(k) == \E n \in 1..Len(gpuQueue) : gpuQueue[n] = k

\* C15: when a render call has failed at the creation of the command
\* buffer, a render-pass begin or end, a draw or the build, the Renderer
\* stores the very future it stored when the call began, the call's frame is
\* not on the GPU queue, and the compositor was handed nothing.
C15_EarlyFailureLeavesFence ==
    failure \in RecordingSteps =>
        /\ renderer.previous_frame_end = fence0
        /\ fence0 # None
        /\ ~Submitted(frame)
        /\ handoffs = <<>>
        /\ result.kind = "Err"

\* A first call was submitted; the second failed at a draw of the right
\* pass and returns with the first call's fence still stored.
C15_Witness ==
    /\ pc = "return"
    /\ frame = 2
    /\ failure = "draw_right"
    /\ gpuQueue = <<1>>
    /\ renderer.previous_frame_end = FenceSignalFuture(1)

\* The scene entries a pass draws, in the order drawn.
Entries(draws) == [k \in 1..Len(draws) |-> draws[k].entry]

\* C16 (as claimed): once both passes are recorded, the left pass and the
\* right pass draw the same scene entries in the same order, whatever the
\* loader did meanwhile.
C16_PassesDrawSameModels ==
    RecordingEnded => Entries(LeftDraws) = Entries(RightDraws)

====
